---- MODULE Spec2Model ----
(***************************************************************************)
(* Model of the live client-mount check of beeg                            *)
(* (checks/client.rs: run_mount_tui, pick_ok, cell) together with the part *)
(* of main.rs that ends the process once the check has returned.           *)
(*                                                                         *)
(* Strings are sequences of one-character strings, Option<String> is a     *)
(* sequence of length 0 (None) or 1 (Some(s)).                             *)
(***************************************************************************)
EXTENDS Integers, Sequences, FiniteSets, TLC

\* ------------------------------------------------------------------ bounds
\* largest number of nodes the selector resolves to
MaxNodes == 2
\* largest number of undrained events the exploration lets pile up while the
\* receiver is alive
MaxBacklog == 2
\* longest standard output drawn for the classification functions, and longest
\* mount path drawn for the rendered commands
MaxLen == 3
\* largest per-operation timeout (seconds) drawn for the rendered commands
MaxTimeout == 2

\* --------------------------------------------------------------- constants
\* number of probe steps of a worker (columns of RowState)
K == 5
\* column of the df step
DfCol == 2
\* column of the ls step
LsCol == 3

VARIABLES
    n,          \* nodes.len(): number of selected nodes
    scenario,   \* which remote behaviour the nodes show in this run
    spawned,    \* number of workers spawned so far by the spawn loop
    wpc,        \* wpc[i]: next step of worker i (0..K-1 probe, K Done, K+1 finished)
    chan,       \* queue of the mpsc channel
    rows,       \* rows[i][j]: Option<String> of node i, column j
    done_count, \* completion counter
    doneFrom,   \* history: workers whose Done the aggregator has applied
    aggPc,      \* position of run_mount_tui
    exitVia,    \* how the loop was left
    exitOn,     \* what draw/poll/read gave in the iteration that left the loop
    frames,     \* parity of the number of frames drawn
    raw,        \* terminal is in raw mode
    alt,        \* alternate screen is active
    ret,        \* return value of run_mount_tui
    procAlive,  \* the process has not exited yet
    sendFailed, \* history: some send found the receiver dropped
    called,     \* history: called[i] = the steps worker i invoked the transport for
    shown,      \* the frame on the screen when the loop is left
    cpc,        \* classification harness: position
    cres,       \* classification harness: transport result
    cstep,      \* classification harness: step column
    cval,       \* classification harness: classified value
    kpc,        \* command harness: position
    kmount,     \* command harness: the mount path (args.mount)
    ktimeout,   \* command harness: the per-operation timeout (args.timeout)
    kstep,      \* command harness: step column
    kcmd,       \* command harness: the command string handed to the transport
    kend,       \* command harness: how the transport call ended
    vcheck,     \* sequential checks: which check runs
    vn,         \* sequential checks: number of nodes the selector resolved to
    vres,       \* sequential checks: what each transport call will return
    vpc,        \* sequential checks: position
    vcalls,     \* sequential checks: nodes the transport was invoked on, in order
    vrows,      \* sequential checks: the result rows collected so far
    vprinted,   \* sequential checks: the table has been printed
    vret        \* sequential checks: return value of the check

vars == <<n, scenario, spawned, wpc, chan, rows, done_count, doneFrom, aggPc,
          exitVia, exitOn, frames, raw, alt, ret, procAlive, sendFailed, called, shown,
          cpc, cres, cstep, cval, kpc, kmount, ktimeout, kstep, kcmd, kend,
          vcheck, vn, vres, vpc, vcalls, vrows, vprinted, vret>>

runVars == <<n, scenario, spawned, wpc, chan, rows, done_count, doneFrom, aggPc,
             exitVia, exitOn, frames, raw, alt, ret, procAlive, sendFailed, called,
             shown>>

classVars == <<cpc, cres, cstep, cval>>

cmdVars == <<kpc, kmount, ktimeout, kstep, kcmd, kend>>

checkVars == <<vcheck, vn, vres, vpc, vcalls, vrows, vprinted, vret>>

\* no sequential check is running
ChecksIdle ==
    /\ vcheck = "none"
    /\ vn = 0
    /\ vres = <<>>
    /\ vpc = "off"
    /\ vcalls = <<>>
    /\ vrows = <<>>
    /\ vprinted = FALSE
    /\ vret = "none"

\* ----------------------------------------------------------------- strings
Whitespace == {" ", "\n", "\t"}

Alphabet == {"O", "K", " ", "X"}

StrOK == <<"O", "K">>

StrERR == <<"E", "R", "R">>

StrPending == <<".", ".", ".">>

None == <<>>

Some(s) == <<s>>

RECURSIVE TrimStart(_)
TrimStart(s) ==
    IF s # <<>> /\ Head(s) \in Whitespace THEN TrimStart(Tail(s)) ELSE s

RECURSIVE TrimEnd(_)
TrimEnd(s) ==
    IF s # <<>> /\ s[Len(s)] \in Whitespace
    THEN TrimEnd(SubSeq(s, 1, Len(s) - 1)) ELSE s

Trim(s) == TrimEnd(TrimStart(s))

StartsWith(s, p) == Len(s) >= Len(p) /\ SubSeq(s, 1, Len(p)) = p

\* ----------------------------------------------------- transport results
ExecOk(s) == [ok |-> TRUE, stdout |-> s, err |-> <<>>]

ExecErr(e) == [ok |-> FALSE, stdout |-> <<>>, err |-> e]

pick_ok_untrimmed(res) ==
    IF res.ok
    THEN (IF StartsWith(res.stdout, StrOK) THEN StrOK ELSE StrERR)
    ELSE StrERR

pick_ok(res) ==
    IF res.ok
    THEN (IF StartsWith(Trim(res.stdout), StrOK) THEN StrOK ELSE StrERR)
    ELSE StrERR

df_val_untrimmed(res) ==
    IF res.ok
    THEN (IF res.stdout = <<>> THEN StrERR ELSE StrOK)
    ELSE StrERR \o <<":">> \o res.err

df_val(res) ==
    IF res.ok
    THEN (IF Trim(res.stdout) = <<>> THEN StrERR ELSE StrOK)
    ELSE StrERR \o <<":">> \o res.err

StepVal(col, res) == IF col = DfCol THEN df_val(res) ELSE pick_ok(res)

cell(v) == IF v = None THEN StrPending ELSE v[1]

\* ------------------------------------------------- remote behaviour of a node
OutOK == <<"O", "K", "\n">>

OutERR == <<"E", "R", "R", "\n">>

OutMISSING == <<"M", "I", "S", "S", "I", "N", "G", "\n">>

OutDfLine == <<"f", "s", " ", "1", "G", "\n">>

ErrMsg == <<"e">>

\* what the transport returns for the five steps on a healthy node, on a node
\* whose mount is broken and on a node that is mostly unreachable
Scripts ==
    << <<ExecOk(OutOK), ExecOk(OutOK), ExecOk(OutDfLine), ExecOk(OutOK), ExecOk(OutOK)>>,
       <<ExecOk(OutMISSING), ExecErr(ErrMsg), ExecOk(<<"\n">>), ExecOk(OutERR), ExecOk(OutOK)>>,
       <<ExecErr(ErrMsg), ExecOk(<<" ">> \o OutOK), ExecErr(ErrMsg), ExecErr(ErrMsg), ExecOk(OutERR)>> >>

Nodes == 0..(n - 1)

Cols == 0..(K - 1)

\* tr.exec(host, cmd) of worker i for step col
Exec(i, col) == Scripts[((i + scenario) % Len(Scripts)) + 1][col + 1]

\* nothing of the table is on the screen
NoFrame == [drawn |-> FALSE, cells |-> <<>>, footer |-> <<0, 0>>]

\* what terminal.draw puts on the screen: the cells through cell(), and the
\* footer "Completed: {}/{}"
Frame(rws, c, total) ==
    [drawn |-> TRUE,
     cells |-> [i \in DOMAIN rws |-> [j \in Cols |-> cell(rws[i][j])]],
     footer |-> <<c, total>>]

\* -------------------------------------------------------------- the channel
SetEv_noidx(i, c, v) == [type |-> "Set", idx |-> 0, col |-> c, val |-> v]

SetEv(i, c, v) == [type |-> "Set", idx |-> i, col |-> c, val |-> v]

\* Update::Done carries no field; idx records the sender for the history only
DoneEv(i) == [type |-> "Done", idx |-> i, col |-> K, val |-> <<>>]

RxAlive == aggPc # "returned"

Send_front(q, alive, ev) ==
    IF alive THEN [queue |-> <<ev>> \o q, ok |-> TRUE]
    ELSE [queue |-> q, ok |-> FALSE]

\* mpsc::Sender::send: never blocks; fails once the receiver is dropped
Send(q, alive, ev) ==
    IF alive THEN [queue |-> Append(q, ev), ok |-> TRUE]
    ELSE [queue |-> q, ok |-> FALSE]

Aborted == 0 - 1

NextPc_unwrap(pc, ok) == IF ok THEN pc + 1 ELSE Aborted

NextPc_resend(pc, ok) == IF pc = K THEN K ELSE pc + 1

NextPc_restart(pc, ok) == IF pc = K THEN 0 ELSE pc + 1

\* `let _ = tx.send(..)`: the result of the send is discarded
NextPc(pc, ok) == pc + 1

\* the exploration lets at most MaxBacklog events wait for a live receiver
BacklogRoom == RxAlive => Len(chan) < MaxBacklog

EmptyRow == [j \in Cols |-> None]

\* ------------------------------------------------------------------- Init
Init ==
    /\ n \in 0..MaxNodes
    /\ scenario \in 0..(Len(Scripts) - 1)
    /\ spawned = 0
    /\ wpc = [i \in Nodes |-> 0]
    /\ called = [i \in Nodes |-> <<>>]
    /\ shown = NoFrame
    /\ chan = <<>>
    /\ rows = <<>>
    /\ done_count = 0
    /\ doneFrom = {}
    /\ aggPc = "spawn"
    /\ exitVia = "none"
    /\ exitOn = "none"
    /\ frames = 0
    /\ raw = FALSE
    /\ alt = FALSE
    /\ ret = "none"
    /\ procAlive = TRUE
    /\ sendFailed = FALSE
    /\ cpc = "off"
    /\ cres = ExecErr(<<>>)
    /\ cstep = 0
    /\ cval = None
    /\ kpc = "off"
    /\ kmount = <<>>
    /\ ktimeout = 0
    /\ kstep = 0
    /\ kcmd = <<>>
    /\ kend = "none"
    /\ ChecksIdle

\* ---------------------------------------------------------------- workers
CallsOfStep_retry(col, res) == IF res.ok THEN <<col>> ELSE <<col, col>>

\* the transport calls of one step: tr.exec is invoked once, whatever it returns
CallsOfStep(col, res) == <<col>>

WorkerCanRun_serial(i) ==
    /\ procAlive
    /\ i \in Nodes
    /\ i < spawned
    /\ BacklogRoom
    /\ \A k \in 0..(i - 1) : wpc[k] = K + 1

WorkerCanRun(i) ==
    /\ procAlive
    /\ i \in Nodes
    /\ i < spawned
    /\ BacklogRoom

\* one probe step: exec, classify, send Set
WorkerProbe(i) ==
    /\ WorkerCanRun(i)
    /\ wpc[i] \in Cols
    /\ LET col == wpc[i]
           val == StepVal(col, Exec(i, col))
           sr  == Send(chan, RxAlive, SetEv(i, col, val))
       IN  /\ chan' = sr.queue
           /\ wpc' = [wpc EXCEPT ![i] = NextPc(col, sr.ok)]
           /\ sendFailed' = (sendFailed \/ ~sr.ok)
           /\ called' = [called EXCEPT ![i] = @ \o CallsOfStep(col, Exec(i, col))]
    /\ UNCHANGED <<n, scenario, spawned, rows, done_count, doneFrom, aggPc, exitVia,
                   exitOn, frames, raw, alt, ret, procAlive, shown>>
    /\ UNCHANGED <<classVars, cmdVars, checkVars>>

\* after the last step: send Done
WorkerDone(i) ==
    /\ WorkerCanRun(i)
    /\ wpc[i] = K
    /\ LET sr == Send(chan, RxAlive, DoneEv(i))
       IN  /\ chan' = sr.queue
           /\ wpc' = [wpc EXCEPT ![i] = NextPc(K, sr.ok)]
           /\ sendFailed' = (sendFailed \/ ~sr.ok)
    /\ UNCHANGED <<n, scenario, called, shown, spawned, rows, done_count, doneFrom, aggPc, exitVia,
                   exitOn, frames, raw, alt, ret, procAlive>>
    /\ UNCHANGED <<classVars, cmdVars, checkVars>>

\* ------------------------------------------------------------- aggregator
\* one turn of the spawn loop
Spawn ==
    /\ aggPc = "spawn"
    /\ spawned < n
    /\ spawned' = spawned + 1
    /\ UNCHANGED <<n, scenario, called, shown, wpc, chan, rows, done_count, doneFrom, aggPc, exitVia,
                   exitOn, frames, raw, alt, ret, procAlive, sendFailed>>
    /\ UNCHANGED <<classVars, cmdVars, checkVars>>

\* the function returns: its locals (rows, done_count, rx) are dropped
Return(r, via) ==
    /\ aggPc' = "returned"
    /\ ret' = r
    /\ exitVia' = via
    /\ rows' = <<>>
    /\ done_count' = 0
    /\ doneFrom' = {}
    /\ chan' = <<>>
    /\ shown' = NoFrame

SetupOutcomes == {"ok", "rawErr", "altErr", "termErr"}

SpawnLoopOver_lazy(s, total) == TRUE

\* `for (idx, n) in nodes.iter().enumerate()` has run for every node
SpawnLoopOver(s, total) == s = total

\* enable_raw_mode()?, EnterAlternateScreen?, Terminal::new()?, then the model
TuiSetup(o) ==
    /\ aggPc = "spawn"
    /\ SpawnLoopOver(spawned, n)
    /\ raw' = (o # "rawErr")
    /\ alt' = (o \in {"ok", "termErr"})
    /\ IF o = "ok"
       THEN /\ aggPc' = "loop"
            /\ rows' = [i \in Nodes |-> EmptyRow]
            /\ done_count' = 0
            /\ UNCHANGED <<chan, doneFrom, exitVia, ret, shown>>
       ELSE Return("Err", "Error")
    /\ UNCHANGED <<n, scenario, called, spawned, wpc, exitOn, frames, procAlive, sendFailed>>
    /\ UNCHANGED <<classVars, cmdVars, checkVars>>

ApplySet_anyrow(r, ev) ==
    [i \in DOMAIN r |-> [r[i] EXCEPT ![ev.col] = Some(ev.val)]]

ApplySet_nolast(r, ev) ==
    IF ev.idx \in DOMAIN r /\ ev.col \in 0..(K - 2)
    THEN [r EXCEPT ![ev.idx][ev.col] = Some(ev.val)]
    ELSE r

ApplySet_reset(r, ev) == [r EXCEPT ![ev.idx] = [EmptyRow EXCEPT ![ev.col] = Some(ev.val)]]

\* rows.get_mut(idx) and the match on col
ApplySet(r, ev) ==
    IF ev.idx \in DOMAIN r /\ ev.col \in Cols
    THEN [r EXCEPT ![ev.idx][ev.col] = Some(ev.val)]
    ELSE r

ApplyDone_twice(c) == c + 2

ApplyDone_lost(c) == c

\* Update::Done => done_count += 1
ApplyDone(c) == c + 1

TryRecv_last(q) == [upd |-> q[Len(q)], rest |-> SubSeq(q, 1, Len(q) - 1)]

\* rx.try_recv() on a non-empty channel: the oldest event, without waiting
TryRecv(q) == [upd |-> Head(q), rest |-> Tail(q)]

\* one successful rx.try_recv() of the drain loop
Recv ==
    /\ aggPc = "loop"
    /\ chan # <<>>
    /\ LET upd == TryRecv(chan).upd
       IN  /\ chan' = TryRecv(chan).rest
           /\ IF upd.type = "Set"
              THEN /\ rows' = ApplySet(rows, upd)
                   /\ UNCHANGED <<done_count, doneFrom>>
              ELSE /\ done_count' = ApplyDone(done_count)
                   /\ doneFrom' = doneFrom \cup {upd.idx}
                   /\ UNCHANGED rows
    /\ UNCHANGED <<n, scenario, called, shown, spawned, wpc, aggPc, exitVia, exitOn, frames, raw, alt,
                   ret, procAlive, sendFailed>>
    /\ UNCHANGED <<classVars, cmdVars, checkVars>>

TickOutcomes == {"drawErr", "pollErr", "timeout", "readErr", "keyQ", "keyOther", "nonKey"}

IsQuit_anykey(o) == o \in {"keyQ", "keyOther"}

\* Event::Key(KeyEvent { code: KeyCode::Char('q'), .. })
IsQuit(o) == o = "keyQ"

AllDone_early(c, total) == c + 1 >= total

\* done_count >= total_done
AllDone(c, total) == c >= total

\* the rest of an iteration once try_recv found the channel empty: draw, poll,
\* read and the two exit tests.  These calls touch neither the channel nor a
\* worker, so what is sent meanwhile is seen by the next iteration's drain.
Tick(o) ==
    /\ aggPc = "loop"
    /\ chan = <<>>
    /\ frames' = IF o = "drawErr" THEN frames ELSE 1 - frames
    /\ IF o \in {"drawErr", "pollErr", "readErr"}
       THEN /\ Return("Err", "Error")
            /\ exitOn' = o
            /\ UNCHANGED <<raw, alt>>
       ELSE /\ IF IsQuit(o)
               THEN /\ aggPc' = "teardown"
                    /\ exitVia' = "Cancelled"
                    /\ exitOn' = o
                    /\ shown' = Frame(rows, done_count, n)
               ELSE IF AllDone(done_count, n)
               THEN /\ aggPc' = "teardown"
                    /\ exitVia' = "Done"
                    /\ exitOn' = o
                    /\ shown' = Frame(rows, done_count, n)
               ELSE UNCHANGED <<aggPc, exitVia, exitOn, shown>>
            /\ UNCHANGED <<rows, done_count, doneFrom, chan, ret, raw, alt>>
    /\ UNCHANGED <<n, scenario, called, spawned, wpc, procAlive, sendFailed>>
    /\ UNCHANGED <<classVars, cmdVars, checkVars>>

TeardownOutcomes == {"ok", "rawErr", "leaveErr"}

\* disable_raw_mode()?, LeaveAlternateScreen?, Ok(())
RunResult_failOnErr(rws, o) ==
    IF o = "ok" /\ \A i \in DOMAIN rws : \A j \in Cols : rws[i][j] \in {None, Some(StrOK)}
    THEN "Ok"
    ELSE "Err"

\* the value returned after the loop: Ok(()) unless a restore call fails; the
\* rows are not consulted
RunResult(rws, o) == IF o = "ok" THEN "Ok" ELSE "Err"

Teardown(o) ==
    /\ aggPc = "teardown"
    /\ raw' = IF o = "rawErr" THEN raw ELSE FALSE
    /\ alt' = IF o = "ok" THEN FALSE ELSE alt
    /\ Return(RunResult(rows, o), exitVia)
    /\ UNCHANGED <<n, scenario, called, spawned, wpc, exitOn, frames, procAlive, sendFailed>>
    /\ UNCHANGED <<classVars, cmdVars, checkVars>>

\* main returns what run_check_cmd returned: the process ends and takes the
\* detached worker threads with it
ProcessExit ==
    /\ aggPc = "returned"
    /\ procAlive
    /\ procAlive' = FALSE
    /\ UNCHANGED <<n, scenario, called, shown, spawned, wpc, chan, rows, done_count, doneFrom, aggPc,
                   exitVia, exitOn, frames, raw, alt, ret, sendFailed>>
    /\ UNCHANGED <<classVars, cmdVars, checkVars>>

Workers == \E i \in Nodes : WorkerProbe(i) \/ WorkerDone(i)

Aggregator ==
    \/ Spawn
    \/ \E o \in SetupOutcomes : TuiSetup(o)
    \/ Recv
    \/ \E o \in TickOutcomes : Tick(o)
    \/ \E o \in TeardownOutcomes : Teardown(o)

Next == Workers \/ Aggregator \/ ProcessExit

Spec == Init /\ [][Next]_vars

TypeOK ==
    /\ n \in 0..MaxNodes
    /\ spawned \in 0..n
    /\ wpc \in [Nodes -> Aborted..(K + 1)]
    /\ called \in [Nodes -> Seq(Cols)]
    /\ done_count \in Nat
    /\ aggPc \in {"spawn", "loop", "teardown", "returned"}
    /\ exitVia \in {"none", "Done", "Cancelled", "Error"}
    /\ ret \in {"none", "Ok", "Err"}
    /\ frames \in {0, 1}
    /\ raw \in BOOLEAN /\ alt \in BOOLEAN /\ procAlive \in BOOLEAN

\* fairness: every worker's transport calls return, the aggregator thread keeps
\* running (poll waits at most one tick), the process ends once main returns
FairSpec ==
    /\ Spec
    /\ \A i \in 0..(MaxNodes - 1) : WF_vars(WorkerProbe(i) \/ WorkerDone(i))
    /\ WF_vars(Aggregator)
    /\ WF_vars(ProcessExit)

\* as FairSpec, except that the transport calls of worker 0 need never return:
\* each worker is a thread of its own, blocked or not independently of the rest
StallSpec ==
    /\ Spec
    /\ \A i \in 1..(MaxNodes - 1) : WF_vars(WorkerProbe(i) \/ WorkerDone(i))
    /\ WF_vars(Aggregator)
    /\ WF_vars(ProcessExit)

\* ------------------------------------------- classification of one result
Strs == UNION {[1..k -> Alphabet] : k \in 0..MaxLen}

ErrMsgs == {<<>>, ErrMsg, StrOK}

ExecResults == {ExecOk(s) : s \in Strs} \cup {ExecErr(e) : e \in ErrMsgs}

ClassInit ==
    /\ n = 0
    /\ scenario = 0
    /\ spawned = 0
    /\ wpc = <<>>
    /\ called = <<>>
    /\ shown = NoFrame
    /\ chan = <<>>
    /\ rows = <<>>
    /\ done_count = 0
    /\ doneFrom = {}
    /\ aggPc = "spawn"
    /\ exitVia = "none"
    /\ exitOn = "none"
    /\ frames = 0
    /\ raw = FALSE
    /\ alt = FALSE
    /\ ret = "none"
    /\ procAlive = TRUE
    /\ sendFailed = FALSE
    /\ cpc = "in"
    /\ cres \in ExecResults
    /\ cstep \in Cols
    /\ cval = None
    /\ kpc = "off"
    /\ kmount = <<>>
    /\ ktimeout = 0
    /\ kstep = 0
    /\ kcmd = <<>>
    /\ kend = "none"
    /\ ChecksIdle

\* the worker's `let val = ...` of step cstep applied to the result cres
ClassifyStep ==
    /\ cpc = "in"
    /\ cval' = Some(StepVal(cstep, cres))
    /\ cpc' = "out"
    /\ UNCHANGED <<cres, cstep>>
    /\ UNCHANGED <<runVars, cmdVars, checkVars>>

ClassNext == ClassifyStep

ClassSpec == ClassInit /\ [][ClassNext]_vars

\* ------------------------------------------ the command of one transport call
\* A command string is a sequence whose elements are single characters of the
\* mount path or fixed pieces of the format strings of client.rs.

\* the characters a mount path is drawn from: a plain one, a space, a quote
\* and a command separator
MountAlphabet == {"m", " ", "'", ";"}

Mounts == UNION {[1..k -> MountAlphabet] : k \in 0..MaxLen}

Timeouts == 0..MaxTimeout

\* ".beeg_check_" followed by rand_suffix(): hex digits only
RndName == ".beeg_check_0a1b2c3d"

\* stands for a path of plain characters only
PlainPath == "PATH"

\* shell_escape: the bytes that need no quoting (letters, digits, -_=/,.+)
Allowed(c) == c \in {"m", "/", RndName, PlainPath}

RECURSIVE EscapeBody(_)
EscapeBody(s) ==
    IF s = <<>> THEN <<>>
    ELSE (IF Head(s) \in {"'", "!"}
          THEN <<"'", "\\", Head(s), "'">>
          ELSE <<Head(s)>>) \o EscapeBody(Tail(s))

\* shell_escape::escape: a non-empty string of allowed bytes is returned as it
\* is; any other is put in single quotes, ' and ! written as '\'' and '\!'
escape(s) ==
    IF s # <<>> /\ \A k \in 1..Len(s) : Allowed(s[k])
    THEN s
    ELSE <<"'">> \o EscapeBody(s) \o <<"'">>

Tail1 == <<" ", ">/dev/null", " ", "2>&1", " ", "&&", " ", "echo", " ", "OK", " ", "||", " ",
           "echo">>

\* step 0: grep on the mounts file; the escaped path is placed inside the
\* single-quoted pattern
cmd_mount_defined(mount) ==
    <<"grep", " ", "-E", " ", "'", "^[^#].*\\s+">> \o escape(mount)
        \o <<"(\\s|$)", "'", " ", "/etc/beegfs/beegfs-mounts.conf">>
        \o Tail1 \o <<" ", "MISSING">>

\* step 1: a fixed command
cmd_client ==
    <<"systemctl", " ", "is-active", " ", "beegfs-client", " ", ">/dev/null", " ", "2>&1",
      " ", "&&", " ", "systemctl", " ", "is-active", " ", "beegfs-helperd">>
        \o Tail1 \o <<" ", "MISSING">>

\* step 2
cmd_df(mount) ==
    <<"df", " ", "-h", " ">> \o escape(mount)
        \o <<" ", "2>&1", " ", "|", " ", "tail", " ", "-n", " ", "+2", " ", "||", " ", "true">>

\* step 3
cmd_ls(mount) == <<"ls", " ", "-la", " ">> \o escape(mount) \o Tail1 \o <<" ", "ERR">>

file_path(mount) == mount \o <<"/", RndName>>

\* step 4
cmd_rw(mount) ==
    <<"dd", " ", "if=/dev/urandom", " ", "of=">> \o escape(file_path(mount))
        \o <<" ", "bs=4K", " ", "count=1", " ", "status=none", " ", "&&", " ", "rm", " ",
             "-f", " ">>
        \o escape(file_path(mount))
        \o <<" ", "&&", " ", "echo", " ", "OK", " ", "||", " ", "echo", " ", "ERR">>

StepCmd(step, mount) ==
    CASE step = 0 -> cmd_mount_defined(mount)
      [] step = 1 -> cmd_client
      [] step = 2 -> cmd_df(mount)
      [] step = 3 -> cmd_ls(mount)
      [] step = 4 -> cmd_rw(mount)

\* format!("timeout {}s sh -lc {}", seconds, shell_escape::escape(cmd))
wrap_timeout(cmd, seconds) ==
    <<"timeout", " ", ToString(seconds), "s", " ", "sh", " ", "-lc", " ">> \o escape(cmd)

\* marks a command separator met outside quotes
Separator == <<"<;>">>

\* the state of sh while it reads a command string: inside single quotes or
\* not, after a backslash or not, the word being read, the words read so far
ShStart == [inq |-> FALSE, esc |-> FALSE, cur |-> <<>>, started |-> FALSE, out |-> <<>>]

Flushed(st) == IF st.started THEN Append(st.out, st.cur) ELSE st.out

\* how sh reads one character: single quotes keep everything up to the next
\* quote literal, a backslash outside quotes keeps the next character
\* literal, a space outside quotes ends a word, a ; outside quotes ends the
\* command
ShStep(st, c) ==
    IF st.esc THEN [st EXCEPT !.esc = FALSE, !.cur = Append(@, c)]
    ELSE IF st.inq
    THEN (IF c = "'" THEN [st EXCEPT !.inq = FALSE] ELSE [st EXCEPT !.cur = Append(@, c)])
    ELSE CASE c = "'" -> [st EXCEPT !.inq = TRUE, !.started = TRUE]
           [] c = "\\" -> [st EXCEPT !.esc = TRUE, !.started = TRUE]
           [] c = " " -> [st EXCEPT !.cur = <<>>, !.started = FALSE, !.out = Flushed(st)]
           [] c = ";" -> [st EXCEPT !.cur = <<>>, !.started = FALSE,
                                    !.out = Append(Flushed(st), Separator)]
           [] OTHER -> [st EXCEPT !.cur = Append(@, c), !.started = TRUE]

\* reading s from position k on in state st (the test on st.esc has each step
\* computed before the next one is taken)
RECURSIVE ShRead(_, _, _)
ShRead(s, k, st) ==
    IF st.esc \in BOOLEAN /\ k > Len(s) THEN st ELSE ShRead(s, k + 1, ShStep(st, s[k]))

\* the words of a command string handed to a shell: by `sh -lc cmd` of the
\* local transport, or by the login shell ssh gives the string to
Words(s) == Flushed(ShRead(s, 1, ShStart))

\* the command string the inner `sh -lc` receives: the last word of the wrapper
InnerCmd(cmd) == LET w == Words(cmd) IN IF w = <<>> THEN <<>> ELSE w[Len(w)]

\* GNU timeout: `timeout Ns command` ends the command after N seconds; a
\* duration of 0 disables the limit
Limited(cmd) ==
    LET w == Words(cmd)
    IN  /\ Len(w) >= 3
        /\ w[1] = <<"timeout">>
        /\ w[2] # <<"0", "s">>

RunVarsIdle ==
    /\ n = 0
    /\ scenario = 0
    /\ spawned = 0
    /\ wpc = <<>>
    /\ called = <<>>
    /\ shown = NoFrame
    /\ chan = <<>>
    /\ rows = <<>>
    /\ done_count = 0
    /\ doneFrom = {}
    /\ aggPc = "spawn"
    /\ exitVia = "none"
    /\ exitOn = "none"
    /\ frames = 0
    /\ raw = FALSE
    /\ alt = FALSE
    /\ ret = "none"
    /\ procAlive = TRUE
    /\ sendFailed = FALSE

CmdInit ==
    /\ RunVarsIdle
    /\ cpc = "off"
    /\ cres = ExecErr(<<>>)
    /\ cstep = 0
    /\ cval = None
    /\ kpc = "in"
    /\ kmount \in Mounts
    /\ ktimeout \in Timeouts
    /\ kstep \in Cols
    /\ kcmd = <<>>
    /\ kend = "none"
    /\ ChecksIdle

\* the worker renders the command of step kstep and wraps it
CmdBuild ==
    /\ kpc = "in"
    /\ kcmd' = wrap_timeout(StepCmd(kstep, kmount), ktimeout)
    /\ kpc' = "built"
    /\ UNCHANGED <<kmount, ktimeout, kstep, kend>>
    /\ UNCHANGED <<runVars, classVars, checkVars>>

CallEnds == {"returned", "blocked"}

\* tr.exec(&host, &cmd): the call returns, or, when nothing limits the remote
\* command, it may keep its worker blocked
CmdRun(o) ==
    /\ kpc = "built"
    /\ o = "blocked" => ~Limited(kcmd)
    /\ kend' = o
    /\ kpc' = "ran"
    /\ UNCHANGED <<kmount, ktimeout, kstep, kcmd>>
    /\ UNCHANGED <<runVars, classVars, checkVars>>

CmdNext == CmdBuild \/ \E o \in CallEnds : CmdRun(o)

CmdSpec == CmdInit /\ [][CmdNext]_vars

\* ------------------------------------------------- the sequential checks
VersionChecks == {"nvidia_driver", "cuda", "nvidia_fs", "ofed"}

StorageTarget == "storage_target"

StrUnknown == <<"unknown">>

StrLoaded == <<"loaded">>

StrError == <<"error">>

\* what the version query of a node can print, or the failure of the call
VerResults ==
    {ExecOk(<<>>), ExecOk(<<"5", "\n">>), ExecOk(<<"unknown", "\n">>), ExecOk(<<"loaded">>),
     ExecErr(ErrMsg)}

\* what the service query and the target listing can print, or the failure
SvcResults == {ExecOk(<<"active", "\n">>), ExecOk(<<"inactive", "\n">>), ExecErr(ErrMsg)}

ListResults == {ExecOk(<<>>), ExecOk(<<"101 @ n (Good)">>), ExecErr(ErrMsg)}

version_row_unknown(res) ==
    IF res.ok
    THEN LET v_str == Trim(res.stdout)
             ver == IF v_str = <<>> THEN StrUnknown ELSE v_str
         IN  [version |-> ver, ok |-> ver # StrUnknown, stderr |-> res.err]
    ELSE [version |-> StrUnknown, ok |-> FALSE, stderr |-> res.err]

\* the `match out` of check_nvidia_driver, check_cuda and check_ofed
version_row(res) ==
    IF res.ok
    THEN LET v_str == Trim(res.stdout)
             ver == IF v_str = <<>> THEN StrUnknown ELSE v_str
         IN  [version |-> ver, ok |-> ver # StrUnknown, stderr |-> res.err]
    ELSE [version |-> StrError, ok |-> FALSE, stderr |-> res.err]

\* the `match out` of check_nvidia_fs
nvidia_fs_row(res) ==
    IF res.ok
    THEN LET v_str == Trim(res.stdout)
             ver == IF v_str = <<>> THEN StrUnknown ELSE v_str
         IN  [version |-> IF v_str = StrLoaded THEN StrLoaded ELSE ver,
              ok |-> (ver # StrUnknown /\ ver # <<>>) \/ v_str = StrLoaded,
              stderr |-> res.err]
    ELSE [version |-> StrError, ok |-> FALSE, stderr |-> res.err]

\* results.push((n.name, n.host, version, ok, stderr))
ResultOf(check, i, res) ==
    LET r == IF check = "nvidia_fs" THEN nvidia_fs_row(res) ELSE version_row(res)
    IN  [node |-> i, version |-> r.version, ok |-> r.ok, stderr |-> r.stderr]

SelectorOk_first(count) == count >= 1

\* nodes.len() != 1 => bail
SelectorOk(count) == count = 1

\* svc.stdout.trim().starts_with("active")
service_active(res) == StartsWith(Trim(res.stdout), <<"active">>)

\* the rows of the target table: one per listed target, with the service state
TargetRows(svc, list) ==
    [k \in 1..Len(list.stdout) |-> [target |-> list.stdout[k], service |-> service_active(svc)]]

ChecksInit ==
    /\ RunVarsIdle
    /\ cpc = "off"
    /\ cres = ExecErr(<<>>)
    /\ cstep = 0
    /\ cval = None
    /\ kpc = "off"
    /\ kmount = <<>>
    /\ ktimeout = 0
    /\ kstep = 0
    /\ kcmd = <<>>
    /\ kend = "none"
    /\ vcheck \in VersionChecks \cup {StorageTarget}
    /\ vn \in 0..MaxNodes
    /\ IF vcheck = StorageTarget
       THEN vres \in SvcResults \X ListResults
       ELSE vres \in [1..vn -> VerResults]
    /\ vpc = "start"
    /\ vcalls = <<>>
    /\ vrows = <<>>
    /\ vprinted = FALSE
    /\ vret = "none"

\* let nodes = config::select_nodes(..); the version checks take any number
VersionStart ==
    /\ vcheck \in VersionChecks
    /\ vpc = "start"
    /\ vpc' = "loop"
    /\ UNCHANGED <<vcheck, vn, vres, vcalls, vrows, vprinted, vret>>
    /\ UNCHANGED <<runVars, classVars, cmdVars>>

\* one pass of `for n in nodes`: tr.exec on the next node, one row pushed
VersionProbe ==
    /\ vcheck \in VersionChecks
    /\ vpc = "loop"
    /\ Len(vrows) < vn
    /\ LET i == Len(vrows)
       IN  /\ vcalls' = Append(vcalls, i)
           /\ vrows' = Append(vrows, ResultOf(vcheck, i, vres[i + 1]))
    /\ UNCHANGED <<vcheck, vn, vres, vpc, vprinted, vret>>
    /\ UNCHANGED <<runVars, classVars, cmdVars>>

\* after the loop: the table (or the JSON array) is printed and Ok(()) returned
VersionPrint ==
    /\ vcheck \in VersionChecks
    /\ vpc = "loop"
    /\ Len(vrows) = vn
    /\ vprinted' = TRUE
    /\ vret' = "Ok"
    /\ vpc' = "returned"
    /\ UNCHANGED <<vcheck, vn, vres, vcalls, vrows>>
    /\ UNCHANGED <<runVars, classVars, cmdVars>>

\* check_storage_target: the test on nodes.len()
StorageSelect ==
    /\ vcheck = StorageTarget
    /\ vpc = "start"
    /\ IF SelectorOk(vn)
       THEN vpc' = "svc" /\ UNCHANGED vret
       ELSE vpc' = "returned" /\ vret' = "Err"
    /\ UNCHANGED <<vcheck, vn, vres, vcalls, vrows, vprinted>>
    /\ UNCHANGED <<runVars, classVars, cmdVars>>

\* let svc = tr.exec(..)?
StorageSvc ==
    /\ vcheck = StorageTarget
    /\ vpc = "svc"
    /\ vcalls' = Append(vcalls, 0)
    /\ IF vres[1].ok
       THEN vpc' = "list" /\ UNCHANGED vret
       ELSE vpc' = "returned" /\ vret' = "Err"
    /\ UNCHANGED <<vcheck, vn, vres, vrows, vprinted>>
    /\ UNCHANGED <<runVars, classVars, cmdVars>>

\* let out = tr.exec(..)?, then the rows, the table and Ok(())
StorageList ==
    /\ vcheck = StorageTarget
    /\ vpc = "list"
    /\ vcalls' = Append(vcalls, 0)
    /\ IF vres[2].ok
       THEN /\ vrows' = TargetRows(vres[1], vres[2])
            /\ vprinted' = TRUE
            /\ vret' = "Ok"
       ELSE /\ vret' = "Err"
            /\ UNCHANGED <<vrows, vprinted>>
    /\ vpc' = "returned"
    /\ UNCHANGED <<vcheck, vn, vres>>
    /\ UNCHANGED <<runVars, classVars, cmdVars>>

ChecksNext ==
    \/ VersionStart
    \/ VersionProbe
    \/ VersionPrint
    \/ StorageSelect
    \/ StorageSvc
    \/ StorageList

ChecksSpec == ChecksInit /\ [][ChecksNext]_vars

\* ================================================================== claims
LoopExitedDone == aggPc = "teardown" /\ exitVia = "Done"

RowFull(i) == \A j \in Cols : rows[i][j] # None

\* C1: whenever the loop is left through the completion test (done_count has
\* reached N), every cell (i, j) of the matrix holds a result, none is None.
C1_DoneMatrixFull ==
    LoopExitedDone => \A i \in Nodes : RowFull(i)

C1_Witness ==
    /\ LoopExitedDone
    /\ n >= 2
    /\ \A i \in Nodes : RowFull(i)

\* positions of the events of node i in the channel
ChanOf(i) == {p \in 1..Len(chan) : chan[p].idx = i}

\* the events of node i waiting in the channel are in increasing step order with
\* the Done (col = K) last, they were all emitted, and every earlier step of
\* the node is either ahead of them in the channel or already applied
ChanOrdered ==
    \A i \in Nodes :
        /\ \A p, q \in ChanOf(i) : p < q => chan[p].col < chan[q].col
        /\ \A p \in ChanOf(i) :
              /\ chan[p].col < wpc[i]
              /\ (chan[p].type = "Done") = (chan[p].col = K)
              /\ \A c \in 0..(chan[p].col - 1) :
                    \/ \E q \in ChanOf(i) : q < p /\ chan[q].col = c
                    \/ (aggPc \in {"loop", "teardown"} /\ rows[i][c] # None)
        /\ (i \in doneFrom) => (ChanOf(i) = {} /\ wpc[i] = K + 1)

\* a worker moves one step at a time and what it appends is the event of the
\* step it was at
EmitInOrder ==
    /\ \A i \in Nodes : wpc'[i] = wpc[i] \/ wpc'[i] = wpc[i] + 1
    /\ (Len(chan') = Len(chan) + 1) =>
          LET ev == chan'[Len(chan')]
          IN  /\ wpc[ev.idx] = ev.col
              /\ wpc'[ev.idx] = ev.col + 1
              /\ ev.col <= K

\* the aggregator applies Set(i, j) to a row whose filled cells are exactly the
\* steps below j, and applies the Done of i once, after the whole row
ApplyInOrder ==
    (aggPc = "loop" /\ chan # <<>> /\ chan' = Tail(chan)) =>
        LET upd == Head(chan)
        IN  /\ upd.idx \notin doneFrom
            /\ IF upd.type = "Set"
               THEN /\ \A c \in Cols : (rows[upd.idx][c] # None) = (c < upd.col)
                    /\ rows'[upd.idx][upd.col] # None
               ELSE /\ RowFull(upd.idx)
                    /\ doneFrom' = doneFrom \cup {upd.idx}

\* C2: for every node, under every interleaving, the Set events are emitted and
\* applied in strictly increasing step order 0..4, the node's Done is its last
\* event, and no worker emits Done twice.
C2_EventOrder ==
    /\ [](aggPc # "returned" => ChanOrdered)
    /\ [][EmitInOrder /\ ApplyInOrder]_vars

C2_Witness ==
    /\ aggPc = "loop"
    /\ \E i, j \in Nodes :
          /\ i # j
          /\ i \in doneFrom
          /\ ChanOf(j) # {}
          /\ rows[j][0] # None

\* C3: done_count never exceeds N, and the loop is never left through the
\* completion test while the Done of some node has not been applied.
C3_CounterBounded ==
    /\ done_count <= n
    /\ LoopExitedDone => (doneFrom = Nodes /\ done_count = n)

C3_Witness ==
    /\ LoopExitedDone
    /\ n >= 1
    /\ done_count = n
    /\ doneFrom = Nodes

\* C4: on every exit path taken after the loop was entered (completion,
\* cancellation, or an error of draw, poll or read) the function returns with
\* raw mode disabled and the alternate screen left.
C4_RestoredOnEveryExit ==
    (aggPc = "returned" /\ exitOn # "none") => (~raw /\ ~alt)

\* C5: when the operator has pressed the quit key, whatever done_count and the
\* workers in flight, the function returns with raw mode disabled and the
\* primary screen restored.
C5_CancelRestores ==
    (aggPc = "returned" /\ exitVia = "Cancelled") => (~raw /\ ~alt)

\* a step of the loop that drew a frame, or tried to
TickStep == aggPc = "loop" /\ (frames' # frames \/ aggPc' # "loop")

LoopLeft == aggPc \in {"teardown", "returned"}

\* reading 'q' leaves the loop in the same iteration, nothing more drained
QuitLeavesAtOnce ==
    (TickStep /\ exitOn' = "keyQ") =>
        /\ aggPc' = "teardown"
        /\ exitVia' = "Cancelled"
        /\ rows' = rows
        /\ done_count' = done_count
        /\ chan' = chan

\* once the loop is left nothing is drained or drawn again
NothingAfterLoop ==
    LoopLeft =>
        /\ frames' = frames
        /\ aggPc' \in {"teardown", "returned"}
        /\ (aggPc' = "teardown" =>
               /\ rows' = rows
               /\ done_count' = done_count
               /\ Len(chan') >= Len(chan)
               /\ SubSeq(chan', 1, Len(chan)) = chan)

\* while some node is not done, only 'q' (or a failing terminal call) makes an
\* iteration leave the loop: a timeout, another key or another event does not
OtherInputStays ==
    /\ (TickStep /\ aggPc' # "loop" /\ done_count < n) =>
           exitOn' \in {"keyQ", "drawErr", "pollErr", "readErr"}
    /\ (TickStep /\ exitVia' = "Cancelled") => exitOn' = "keyQ"

\* C6: reading the quit key 'q' in a running loop ends the loop in that same
\* iteration, without draining, without drawing again and without waiting for
\* any outstanding worker; no other key event ends the loop.
C6_QuitImmediate ==
    /\ [][QuitLeavesAtOnce /\ NothingAfterLoop /\ OtherInputStays]_vars
    /\ [](aggPc = "teardown" => ENABLED (\E o \in TeardownOutcomes : Teardown(o)))

C6_Witness ==
    /\ aggPc = "teardown"
    /\ exitVia = "Cancelled"
    /\ exitOn = "keyQ"
    /\ done_count < n
    /\ \E i \in Nodes : wpc[i] \in Cols

\* C7 as stated: after a cancellation every outstanding worker goes on through
\* its remaining steps and its Done.
C7_WorkersRunToDone ==
    (exitVia = "Cancelled" /\ ~procAlive) => \A i \in Nodes : wpc[i] = K + 1

Unfinished(i) == wpc[i] \in 0..K

\* after the cancellation a worker only ever moves to its next step, and the
\* matrix and the counter stay as they were while they exist
LateSendsHarmless ==
    (exitVia = "Cancelled") =>
        /\ \A i \in Nodes : wpc'[i] = wpc[i] \/ (Unfinished(i) /\ wpc'[i] = wpc[i] + 1)
        /\ (aggPc' = "teardown" => (rows' = rows /\ done_count' = done_count))

\* a worker that has steps left can take the next one as long as the process
\* lives, whether or not the receiver still exists
SendNeverBlocks ==
    (exitVia = "Cancelled" /\ procAlive /\ BacklogRoom) =>
        \A i \in Nodes : Unfinished(i) => ENABLED (WorkerProbe(i) \/ WorkerDone(i))

\* C7 (amended): after a cancellation the workers are neither signalled nor
\* awaited; until the process exits each one can go on step by step to its
\* Done, no send blocks or aborts it, and no late event changes the matrix or
\* the counter.  Workers still running when the process exits stop there.
C7_LateSendsHarmless ==
    /\ [][LateSendsHarmless]_vars
    /\ [](SendNeverBlocks)
    /\ [](\A i \in Nodes : wpc[i] # Aborted)

C7_Witness ==
    /\ exitVia = "Cancelled"
    /\ aggPc = "returned"
    /\ sendFailed
    /\ procAlive
    /\ \E i \in Nodes : wpc[i] = K + 1

\* what the ls column of node i has to read: Ok when the probe printed OK, Err
\* when it printed anything else or the transport failed
LsExpected(i) ==
    LET res == Exec(i, LsCol)
    IN  IF res.ok /\ res.stdout = OutOK THEN StrOK ELSE StrERR

DoneExitComplete ==
    /\ LoopExitedDone
    /\ done_count = n
    /\ \A i \in Nodes : rows[i][LsCol] = Some(LsExpected(i))

\* C8: unless the operator cancels or a terminal call fails, with every
\* transport call returning the run eventually leaves the loop through the
\* completion test with done_count = N, the ls column reading Ok for a node
\* whose probe printed OK and Err for one that printed ERR or failed.
C8_EventuallyDone ==
    \/ <>(exitVia \in {"Cancelled", "Error"})
    \/ <>DoneExitComplete

C8_Witness ==
    /\ DoneExitComplete
    /\ n >= 2
    /\ \E i, j \in Nodes :
          /\ Exec(i, LsCol) = ExecOk(OutOK) /\ rows[i][LsCol] = Some(StrOK)
          /\ Exec(j, LsCol) # ExecOk(OutOK) /\ rows[j][LsCol] = Some(StrERR)

Classified == cpc = "out"

\* s is OK with nothing but whitespace around it
IsPaddedOK(s) ==
    \E k \in 1..(Len(s) - 1) :
        /\ s[k] = "O"
        /\ s[k + 1] = "K"
        /\ \A p \in (1..Len(s)) \ {k, k + 1} : s[p] \in Whitespace

\* s is optional whitespace, then OK, then anything
BeginsWithOK(s) ==
    \E k \in 1..(Len(s) - 1) :
        /\ s[k] = "O"
        /\ s[k + 1] = "K"
        /\ \A p \in 1..(k - 1) : s[p] \in Whitespace

\* C9 as stated: on a sentinel step a success whose output is exactly OK,
\* possibly surrounded by whitespace, is Ok; every other output and every
\* transport failure is Err.
C9_ExactOK ==
    (Classified /\ cstep # DfCol) =>
        cval = Some(IF cres.ok /\ IsPaddedOK(cres.stdout) THEN StrOK ELSE StrERR)

\* C9 (amended): on a sentinel step a success whose output, after leading
\* whitespace, begins with OK is Ok whatever follows; every other output and
\* every transport failure is Err.
C9_BeginsWithOK ==
    (Classified /\ cstep # DfCol) =>
        cval = Some(IF cres.ok /\ BeginsWithOK(cres.stdout) THEN StrOK ELSE StrERR)

C9_Witness ==
    /\ Classified
    /\ cstep = LsCol
    /\ cres = ExecOk(<<"O", "K", "X">>)
    /\ cval = Some(StrOK)

\* C10: the df step (column 2) classifies on emptiness: a success with some
\* non-whitespace output is Ok, a success with empty or whitespace-only output
\* is Err, a transport failure is ERR: followed by the error text.
C10_DfOnEmptiness ==
    (Classified /\ cstep = DfCol) =>
        cval = Some(IF cres.ok
                    THEN (IF \E p \in 1..Len(cres.stdout) : cres.stdout[p] \notin Whitespace
                          THEN StrOK ELSE StrERR)
                    ELSE <<"E", "R", "R", ":">> \o cres.err)

C10_Witness ==
    /\ Classified
    /\ cstep = DfCol
    /\ cres = ExecOk(<<" ", " ">>)
    /\ cval = Some(StrERR)

\* ---------------------------------------------------------------- C11
Min(a, b) == IF a < b THEN a ELSE b

\* the transport calls a worker that stands at pc has made: steps 0..pc-1, once each
StepsUpTo(pc) == [k \in 1..Min(pc, K) |-> k - 1]

CalledInOrder == \A i \in Nodes : called[i] = StepsUpTo(wpc[i])

\* a worker step moves to the next position only, and a probe step invokes the
\* transport for exactly the step it stands at
OneCallPerStep ==
    \A i \in Nodes :
        wpc'[i] # wpc[i] =>
            /\ wpc'[i] = wpc[i] + 1
            /\ called'[i] = IF wpc[i] \in Cols THEN Append(called[i], wpc[i]) ELSE called[i]

\* whatever the earlier steps returned, the next step (or the final Done) can be taken
NextStepAlwaysOpen ==
    (procAlive /\ BacklogRoom) =>
        \A i \in Nodes : (i < spawned /\ Unfinished(i)) =>
            ENABLED (WorkerProbe(i) \/ WorkerDone(i))

\* C11: every worker invokes the transport exactly once for each of the K
\* steps, in step order, whatever the earlier steps returned: a failed step
\* never skips, repeats or aborts a later one, and never prevents the Done.
C11_OneCallPerStepInOrder ==
    /\ [](CalledInOrder)
    /\ [][OneCallPerStep]_vars
    /\ [](NextStepAlwaysOpen)

\* a worker whose first transport call failed has made all K calls and sent Done
C11_Witness ==
    \E i \in Nodes :
        /\ ~Exec(i, 0).ok
        /\ wpc[i] = K + 1
        /\ called[i] = <<0, 1, 2, 3, 4>>

\* ---------------------------------------------------------------- C12
\* a cell that holds a result keeps it for as long as the matrix exists
CellWriteOnce ==
    (aggPc \in {"loop", "teardown"} /\ aggPc' \in {"loop", "teardown"}) =>
        \A i \in Nodes : \A j \in Cols :
            /\ rows[i][j] # None => rows'[i][j] = rows[i][j]
            /\ rows'[i][j] # rows[i][j] => (rows[i][j] = None /\ rows'[i][j] # None)

\* C12: each cell changes at most once in a run, from Pending to a result; it
\* is never reset to Pending and never changed to a different result.
C12_CellWriteOnce == [][CellWriteOnce]_vars

\* a row that already holds results receives a further one
C12_Witness ==
    /\ aggPc = "loop"
    /\ \E i \in Nodes : rows[i][0] # None /\ rows[i][1] # None /\ rows[i][2] = None
    /\ chan # <<>>

\* ---------------------------------------------------------------- C13
EndedDoneOrCancelled == aggPc = "returned" /\ exitVia \in {"Done", "Cancelled"}

\* both restore calls succeeded: raw mode is off and the primary screen is back
RestoreSucceeded == ~raw /\ ~alt

\* some node's listing probe fails, another step of the run succeeds
SomeProbeFails == \E i \in Nodes : StepVal(LsCol, Exec(i, LsCol)) = StrERR

\* C13 (as stated): run_mount_tui returns Ok whenever the run ends in Done or
\* Cancelled.
C13_OkOnDoneOrCancelled == EndedDoneOrCancelled => ret = "Ok"

\* C13 (amended): after a Done or Cancelled exit run_mount_tui returns Ok
\* exactly when both restore calls succeed, and the error of the failing
\* restore call otherwise; the return value never depends on the cells.
C13_OkUnlessRestoreFails == EndedDoneOrCancelled => (ret = "Ok" <=> RestoreSucceeded)

\* a run with failed probes has ended in Done and returned Ok
C13_Witness ==
    /\ EndedDoneOrCancelled
    /\ exitVia = "Done"
    /\ SomeProbeFails
    /\ ret = "Ok"

\* ---------------------------------------------------------------- C14
\* events sent so far by workers 0..k-1: one per position passed
RECURSIVE SentUpTo(_)
SentUpTo(k) == IF k = 0 THEN 0 ELSE wpc[k - 1] + SentUpTo(k - 1)

\* events applied so far: filled cells plus counted Dones
Applied ==
    Cardinality({c \in (DOMAIN rows) \X Cols : rows[c[1]][c[2]] # None}) + done_count

\* while the receiver exists every event sent is either queued or applied, and
\* there are never more than N*(K+1) of them
EventsAccounted ==
    RxAlive =>
        /\ Len(chan) + Applied = SentUpTo(n)
        /\ SentUpTo(n) <= n * (K + 1)

\* a drain step takes the oldest event and applies just that one
DrainInOrder ==
    (aggPc = "loop" /\ Len(chan') = Len(chan) - 1) =>
        LET ev == Head(chan)
        IN  /\ chan' = Tail(chan)
            /\ IF ev.type = "Set"
               THEN rows'[ev.idx][ev.col] = Some(ev.val) /\ done_count' = done_count
               ELSE rows' = rows /\ done_count' = done_count + 1

\* the drain takes an event whenever one is queued and hands over to the
\* render step exactly when the channel is seen empty
DrainNeverBlocks ==
    aggPc = "loop" =>
        /\ chan # <<>> => (ENABLED Recv /\ ~ENABLED Tick("timeout"))
        /\ chan = <<>> => (ENABLED Tick("timeout") /\ ~ENABLED Recv)

\* C14: the drain of one iteration never blocks: it applies, in channel order,
\* every event present (a Set overwrites the addressed cell, a Done adds
\* exactly one), stops as soon as the channel is seen empty, and terminates
\* because at most N*(K+1) events are ever sent.
C14_DrainInOrderNonBlocking ==
    /\ [][DrainInOrder]_vars
    /\ [](DrainNeverBlocks)
    /\ [](EventsAccounted)

\* in the middle of a drain: events already applied, two different ones queued
C14_Witness ==
    /\ aggPc = "loop"
    /\ Applied > 0
    /\ Len(chan) >= 2
    /\ chan[1] # chan[2]

\* ---------------------------------------------------------------- C15
Cells == (DOMAIN rows) \X Cols

\* applying one event touches only what the event addresses
ApplyFrame ==
    (aggPc = "loop" /\ aggPc' = "loop" /\ Len(chan') = Len(chan) - 1) =>
        LET ev == Head(chan)
        IN  IF ev.type = "Set"
            THEN /\ \A c \in Cells : c # <<ev.idx, ev.col>> => rows'[c[1]][c[2]] = rows[c[1]][c[2]]
                 /\ done_count' = done_count
            ELSE /\ rows' = rows
                 /\ done_count' = done_count + 1

\* a worker step writes neither the matrix nor the counter
WorkersOnlySend ==
    wpc' # wpc => (rows' = rows /\ done_count' = done_count /\ doneFrom' = doneFrom)

\* every filled cell of row i holds what worker i computed for that step
RowHoldsOwnOutcomes ==
    \A c \in Cells :
        rows[c[1]][c[2]] # None => rows[c[1]][c[2]] = Some(StepVal(c[2], Exec(c[1], c[2])))

\* C15: applying Set(i, j, v) changes cell (i, j) only and leaves every other
\* cell and the counter unchanged; applying Done changes the counter only; no
\* worker step changes the matrix or the counter.  So a failed step affects
\* exactly one cell, and row i only ever holds outcomes computed by worker i.
C15_FrameOfEvents ==
    /\ [][ApplyFrame]_vars
    /\ [][WorkersOnlySend]_vars
    /\ [](RowHoldsOwnOutcomes)

\* one node's failed step sits next to another node's success for the same step
C15_Witness ==
    /\ aggPc = "loop"
    /\ \E i \in Nodes : \E k \in Nodes : \E j \in Cols :
        /\ rows[i][j] # None /\ rows[i][j] # Some(StrOK)
        /\ rows[k][j] = Some(StrOK)

\* ---------------------------------------------------------------- C16
\* the matrix determined by what each worker computed, whatever the schedule
OutcomeMatrix == [i \in Nodes |-> [j \in Cols |-> Some(StepVal(j, Exec(i, j)))]]

\* C16: the result matrix at a Done exit is the same for every interleaving of
\* the workers' events: it depends only on the outcomes each worker computed.
C16_MatrixScheduleIndependent == LoopExitedDone => rows = OutcomeMatrix

\* a Done exit of two nodes with different outcomes whose events were interleaved
C16_Witness ==
    /\ LoopExitedDone
    /\ n >= 2
    /\ rows[0] # rows[1]
    /\ rows = OutcomeMatrix

\* ---------------------------------------------------------------- C17
\* worker i has delivered everything: its row is full and its Done is counted
Delivered(i) == aggPc \in {"loop", "teardown"} /\ i \in doneFrom /\ RowFull(i)

\* every worker other than worker 0 has delivered everything
OthersDelivered == \A i \in Nodes \ {0} : Delivered(i)

\* the aggregator waits for no worker: in the loop it always has a step to
\* take (drain an event, or render and poll), wherever the workers stand
AggregatorNeverWaits == aggPc = "loop" => ENABLED Aggregator

\* C17: a worker blocked in a transport call, for however long, delays no
\* other worker: unless the run is cancelled or fails, every other worker
\* emits its K Sets and its Done and the aggregator applies them, and the
\* aggregator can go on rendering while the blocked worker's row is Pending.
C17_BlockedWorkerDelaysNoOne ==
    /\ <>(exitVia \in {"Cancelled", "Error"} \/ OthersDelivered)
    /\ [](AggregatorNeverWaits)

\* worker 0 has not got past its first call, worker 1 has delivered everything
C17_Witness ==
    /\ n >= 2
    /\ wpc[0] = 0
    /\ Delivered(1)
    /\ rows[0][0] = None
    /\ aggPc = "loop"

\* ---------------------------------------------------------------- C18
\* the phases of the aggregator in the order the code passes through them
PhaseRank(pc) ==
    CASE pc = "spawn" -> 0
      [] pc = "loop" -> 1
      [] pc = "teardown" -> 2
      [] pc = "returned" -> 3

\* the aggregator only moves forward, reaches the teardown from the loop only
\* and by Done or Cancelled only, and never changes the exit it has taken
ForwardOnly ==
    /\ PhaseRank(aggPc') >= PhaseRank(aggPc)
    /\ (aggPc # "teardown" /\ aggPc' = "teardown") =>
           (aggPc = "loop" /\ exitVia = "none" /\ exitVia' \in {"Done", "Cancelled"})
    /\ exitVia # "none" => exitVia' = exitVia

\* after the loop nothing is drained, counted or rendered any more
LoopStaysLeft ==
    LoopLeft =>
        /\ aggPc' # "loop"
        /\ Len(chan') >= Len(chan) \/ aggPc' = "returned"
        /\ aggPc' = "teardown" => (rows' = rows /\ done_count' = done_count)
        /\ frames' = frames

\* no worker is spawned twice or starts over
NoWorkerRestarted ==
    /\ spawned' >= spawned
    /\ \A i \in Nodes : wpc'[i] >= wpc[i]

\* C18: the aggregator only moves Running -> Done or Running -> Cancelled and
\* then to the teardown: once the loop has been left it is never re-entered,
\* no event is drained afterwards, and no worker is ever restarted in a run.
C18_NoWayBackToRunning ==
    /\ [][ForwardOnly]_vars
    /\ [][LoopStaysLeft]_vars
    /\ [][NoWorkerRestarted]_vars

\* a cancelled run has returned while a worker is mid-way and still going
C18_Witness ==
    /\ aggPc = "returned"
    /\ exitVia = "Cancelled"
    /\ procAlive
    /\ \E i \in Nodes : wpc[i] \in 1..(K - 1)

\* ---------------------------------------------------------------- C19
\* the command handed to the transport is the step's command inside the
\* wrapper `timeout <seconds>s sh -lc <command>`
WrappedWithTimeout ==
    kpc \in {"built", "ran"} =>
        LET w == Words(kcmd)
        IN  /\ Len(w) = 5
            /\ SubSeq(w, 1, 4) = << <<"timeout">>, <<ToString(ktimeout), "s">>, <<"sh">>, <<"-lc">> >>
            /\ w[5] = StepCmd(kstep, kmount)

\* C19 (as stated): every transport call of a worker passes a command wrapped
\* by wrap_timeout with the configured timeout, so that no remote command
\* keeps its worker blocked past that timeout, whatever timeout is configured.
C19_NoCallBlocksPastTimeout ==
    /\ WrappedWithTimeout
    /\ kpc = "ran" => kend = "returned"

\* ---------------------------------------------------------------- C20
RECURSIVE PutPath(_, _)
PutPath(w, path) ==
    IF w = <<>> THEN <<>>
    ELSE (IF Head(w) = PlainPath THEN path ELSE <<Head(w)>>) \o PutPath(Tail(w), path)

\* the words the step's command has when the path is one literal argument:
\* those of the command rendered for a plain path, with the path in its place
LiteralWords(step, mount) ==
    LET w == Words(StepCmd(step, <<PlainPath>>))
    IN  [k \in 1..Len(w) |-> PutPath(w[k], mount)]

\* C20 (as stated): for every mount path each rendered step command treats the
\* path as a single literal argument: the path neither ends the quoting around
\* it nor adds a shell command.
C20_PathIsOneLiteralArgument ==
    kpc \in {"built", "ran"} => Words(InnerCmd(kcmd)) = LiteralWords(kstep, kmount)

\* ---------------------------------------------------------------- C23
\* the filled cells of row i are those of the first steps
FilledIsPrefix(i) ==
    \A j \in Cols : rows[i][j] # None => \A j2 \in 0..(j - 1) : rows[i][j2] # None

\* C23: in every aggregator state and under every interleaving the filled
\* cells of each row form a prefix of the step order: if cell (i, j) holds a
\* result, so does every cell (i, j') with j' < j.
C23_RowsFillInStepOrder == \A i \in DOMAIN rows : FilledIsPrefix(i)

\* two rows partly filled to different lengths, events of both still queued
C23_Witness ==
    /\ aggPc = "loop"
    /\ n >= 2
    /\ rows[0][1] # None /\ rows[0][2] = None
    /\ rows[1][0] # None /\ rows[1][1] = None
    /\ chan # <<>>

\* ---------------------------------------------------------------- C24
\* rows without a Pending cell
FullRows == {i \in DOMAIN rows : RowFull(i)}

\* C24: although a Done carries no node index, the completion counter is
\* never more than the number of rows that have no Pending cell, so the footer
\* never reports more completed nodes than there are fully filled rows.
C24_CounterAtMostFullRows == done_count <= Cardinality(FullRows)

\* a Done is counted for one node while another row is still partly Pending
C24_Witness ==
    /\ aggPc = "loop"
    /\ done_count = 1
    /\ Cardinality(FullRows) = 1
    /\ \E i \in Nodes : rows[i][0] # None /\ ~RowFull(i)

\* ---------------------------------------------------------------- C25
\* the frame shows no placeholder
NoPlaceholder(f) == \A i \in DOMAIN f.cells : \A j \in Cols : f.cells[i][j] # StrPending

\* C25: when the loop exits through the completion test, the last frame drawn
\* before the exit came after the drain that applied the final Done: it shows
\* the footer N/N and no placeholder in any cell, and it shows the matrix and
\* the counter as they are at the exit.
C25_FinalFrameComplete ==
    LoopExitedDone =>
        /\ shown.drawn
        /\ shown.footer = <<n, n>>
        /\ DOMAIN shown.cells = Nodes
        /\ NoPlaceholder(shown)
        /\ shown = Frame(rows, done_count, n)

\* a completion exit of two nodes whose last frame shows an Err next to an OK
C25_Witness ==
    /\ LoopExitedDone
    /\ n >= 2
    /\ shown.footer = <<2, 2>>
    /\ \E i \in Nodes : \E j \in Cols : shown.cells[i][j] = StrOK
    /\ \E i \in Nodes : \E j \in Cols : shown.cells[i][j] = StrERR

\* ---------------------------------------------------------------- C26
\* with no node nothing is spawned and no transport call is made
NothingSpawned == n = 0 => (spawned = 0 /\ wpc = <<>> /\ called = <<>> /\ chan = <<>>)

\* with no node the first iteration is the last, and it leaves by the
\* completion test
OneIterationToDone ==
    (n = 0 /\ TickStep) => (aggPc' = "teardown" /\ exitVia' = "Done" /\ done_count = 0)

\* with no node the function returns with the terminal restored
ZeroNodesRestored == (n = 0 /\ aggPc = "returned") => (~raw /\ ~alt)

\* C26 (as stated): when the selector resolves to zero nodes, no worker is
\* spawned and no transport call is made, the loop performs exactly one
\* iteration and exits through the completion test with counter 0 = N, and
\* the terminal is restored.
C26_ZeroNodesOneIteration ==
    /\ [](NothingSpawned)
    /\ [][OneIterationToDone]_vars
    /\ [](ZeroNodesRestored)

\* ---------------------------------------------------------------- C27
\* terminal setup failed: returned by an error that no loop iteration raised
SetupFailed == aggPc = "returned" /\ exitVia = "Error" /\ exitOn = "none"

\* the terminal is touched only once every worker has been spawned
SpawnedBeforeSetup == (aggPc # "spawn" \/ raw \/ alt) => spawned = n

\* a failing setup returns the error at once: no frame, no drain, and the
\* workers are left as they are
SetupFailureReturns ==
    (aggPc = "spawn" /\ aggPc' = "returned") =>
        /\ ret' = "Err"
        /\ frames' = frames
        /\ wpc' = wpc /\ spawned' = spawned /\ procAlive' = procAlive

\* after a failed setup no iteration runs, and each worker can still take its
\* next step, one at a time, while the process lives
AfterSetupFailure ==
    SetupFailed =>
        /\ frames = 0 /\ ret = "Err" /\ ~shown.drawn
        /\ \A i \in Nodes : wpc[i] # Aborted
        /\ procAlive => \A i \in Nodes : Unfinished(i) => ENABLED (WorkerProbe(i) \/ WorkerDone(i))

\* C27: all N workers are spawned, and may already have probed, before the
\* terminal is set up; if the setup fails run_mount_tui returns the error
\* without running a loop iteration and without signalling or awaiting the
\* workers, and every later send of those workers is non-fatal to them.
C27_SetupFailureLeavesWorkers ==
    /\ [](SpawnedBeforeSetup)
    /\ [][SetupFailureReturns]_vars
    /\ [](AfterSetupFailure)

\* setup failed: a send found the receiver gone, one worker has run to its
\* end all the same, another is still under way
C27_Witness ==
    /\ SetupFailed
    /\ sendFailed
    /\ \E i \in Nodes : wpc[i] = K + 1
    /\ \E i \in Nodes : Unfinished(i)

\* the calls made so far went to the nodes in the order of the selection, one
\* each, and every call pushed exactly one row for its node
OneCallOneRowInOrder ==
    /\ Len(vcalls) = Len(vrows)
    /\ Len(vrows) <= vn
    /\ \A k \in 1..Len(vrows) : vcalls[k] = k - 1 /\ vrows[k].node = k - 1

FailedCallRows ==
    \A k \in 1..Len(vrows) :
        ~vres[k].ok => (vrows[k].version = StrError /\ ~vrows[k].ok)

VersionCheckSucceeds ==
    /\ vret \in {"none", "Ok"}
    /\ vpc = "returned" => (vret = "Ok" /\ Len(vrows) = vn /\ vprinted)

RowsKept ==
    /\ Len(vrows') >= Len(vrows)
    /\ \A k \in 1..Len(vrows) : vrows'[k] = vrows[k]

\* C21: in the sequential version checks every selected node gets exactly one
\* transport call and exactly one result row, in the order of the selection; a
\* failed call yields a row with version "error" and ok = false, the rows of the
\* other nodes are never changed, the loop goes on to the last node and the
\* command returns success
C21_VersionLoopSurvivesFailures ==
    /\ [](vcheck \in VersionChecks =>
            (OneCallOneRowInOrder /\ FailedCallRows /\ VersionCheckSucceeds))
    /\ [][(vcheck \in VersionChecks) => RowsKept]_vars

C21_Witness ==
    /\ vcheck \in VersionChecks
    /\ vpc = "returned"
    /\ vn >= 2
    /\ ~vres[1].ok
    /\ vrows[1].version = StrError
    /\ vres[2].ok
    /\ vrows[2].ok
    /\ vret = "Ok"

\* the storage-target check whose selector resolved to no node or to several
BadSelection ==
    vn # 1 =>
        /\ vcalls = <<>>
        /\ ~vprinted
        /\ vpc \in {"start", "returned"}
        /\ vpc = "returned" => vret = "Err"

\* a call of the storage-target check that was made and failed
SvcCallFailed == Len(vcalls) >= 1 /\ ~vres[1].ok

ListCallFailed == Len(vcalls) >= 2 /\ ~vres[2].ok

OneNodeCallFailure ==
    (vn = 1 /\ (SvcCallFailed \/ ListCallFailed)) =>
        /\ vpc = "returned"
        /\ vret = "Err"
        /\ ~vprinted
        /\ SvcCallFailed => Len(vcalls) = 1

\* C22: check_storage_target returns an error before any transport call and
\* prints no table when its selector resolves to zero or to several nodes; with
\* exactly one node, a failure of either transport call ends the check with an
\* error
C22_StorageTargetNeedsOneNode ==
    vcheck = StorageTarget => (BadSelection /\ OneNodeCallFailure)

C22_Witness ==
    /\ vcheck = StorageTarget
    /\ vn = 1
    /\ Len(vcalls) = 2
    /\ vres[1].ok
    /\ ~vres[2].ok
    /\ vpc = "returned"
    /\ vret = "Err"
    /\ ~vprinted

====
